---- MODULE Spec2Model ----
(***************************************************************************)
(* Model of the note session controller of notes_frontend/src/App.js.      *)
(*                                                                         *)
(* The program state is the seven useState cells of App, the set of        *)
(* backend requests whose promise has not settled yet, and the backend's   *)
(* id counter.  One action stands for one event-loop task: a DOM event     *)
(* handler, or the continuation of an async function after its await.      *)
(* All setState calls of one task are batched (React 18), the component    *)
(* re-renders, and the effect on [selectedId] runs before the next task    *)
(* whenever that render changed selectedId; so every action below is the   *)
(* handler followed by that effect.                                        *)
(*                                                                         *)
(* A handler can only be invoked through the element it is bound to, so    *)
(* the guard of a user action is the condition under which the JSX renders *)
(* that element and leaves it enabled.                                     *)
(***************************************************************************)
EXTENDS Naturals, Sequences, FiniteSets, Bags, TLC

\* ---------------------------------------------------------------- bounds
\* Longest list the backend returns for GET /notes; its ids are 1..MaxList.
MaxList == 2
\* Number of notes the backend creates (fresh ids MaxList+1 ..).
MaxCreate == 1
\* Largest number of requests outstanding at the same time.
MaxInflight == 2
\* Longest list the backend returns in the sessions checked for liveness.
LiveList == 1

\* ------------------------------------------------------------- constants
\* useState(null): no selection.  `!selectedId` is also true of 0.
NoId == 0
\* Texts are sequences of characters.  What a user types into the title
\* input and into the content textarea (a field is empty until typed into):
TitleInputs == {<<" ">>, <<"b">>}
ContentInputs == {<<" ">>, <<"c">>}
\* The titles and contents the backend holds for the notes it serves.
ServerTitles == {<<"a">>}
ServerContents == {<<"c">>}
\* useState(null) for detail: the absent note (`detail?.id` is undefined).
NoNote == [id |-> NoId, title |-> <<>>, content |-> <<>>]
\* useState({ title: "", content: "" })
BlankForm == [title |-> <<>>, content |-> <<>>]

ListIds == 1..MaxList
AllIds == 1..(MaxList + MaxCreate)

Note(i, t, c) == [id |-> i, title |-> t, content |-> c]

\* ------------------------------------------------------------ pure helpers
RECURSIVE TrimStart(_)
TrimStart(s) ==
  IF s # <<>> /\ Head(s) = " " THEN TrimStart(Tail(s)) ELSE s

RECURSIVE TrimEnd(_)
TrimEnd(s) ==
  IF s # <<>> /\ s[Len(s)] = " " THEN TrimEnd(SubSeq(s, 1, Len(s) - 1)) ELSE s

\* A slip: the fields are tested without trimming.
TrimOmitted(s) == s

\* String.prototype.trim
Trim(s) == TrimEnd(TrimStart(s))

\* A slip: the list is stored in the order the backend sent it.
ReverseOmitted(s) == s

\* Array.prototype.reverse
Reverse(s) == [i \in 1..Len(s) |-> s[Len(s) + 1 - i]]

\* ns.filter((n) => n.id !== id)
FilterOutId(ns, i) == SelectSeq(ns, LAMBDA n : n.id # i)

\* A slip: the update branch adds the note as the create branch does.
MapReplaceAdds(ns, note) == <<note>> \o ns

\* ns.map((n) => (n.id === note.id ? note : n))
MapReplace(ns, note) ==
  [k \in 1..Len(ns) |-> IF ns[k].id = note.id THEN note ELSE ns[k]]

\* A slip: the new note is put at the end of the list.
PrependAtEnd(note, ns) == ns \o <<note>>

\* [note, ...ns]
Prepend(note, ns) == <<note>> \o ns

IdsOf(ns) == {ns[k].id : k \in 1..Len(ns)}

\* ------------------------------------------------------------------ state
VARIABLES
  notes,       \* useState([])    : sequence of notes, as rendered in the list
  selectedId,  \* useState(null)  : NoId or an id
  detail,      \* useState(null)  : NoNote or a note
  editMode,    \* useState(false) : the form is rendered
  loading,     \* useState(false)
  error,       \* useState("")
  form,        \* useState({ title: "", content: "" })
  inflight,    \* bag of requests whose fetchJSON promise has not settled
  nextId,      \* backend: the id the next POST /notes assigns
  last         \* history: the task that ran last

vars == <<notes, selectedId, detail, editMode, loading, error, form,
          inflight, nextId, last>>

\* A request captures what the closure of the async function that issued it
\* holds: the id in the URL and the body.  sel0 is history only: for a PUT,
\* the selectedId of the render whose handleSave issued it.
Request(k, i, t, c, s0) ==
  [kind |-> k, id |-> i, title |-> t, content |-> c, sel0 |-> s0]

NoRequest == Request("none", NoId, <<>>, <<>>, NoId)

\* The current values of the state cells, as one record.
Cur ==
  [notes |-> notes, selectedId |-> selectedId, detail |-> detail,
   editMode |-> editMode, loading |-> loading, error |-> error,
   form |-> form, inflight |-> inflight]

\* The continuations of the async functions, by the name of their record.
SettleEvents ==
  {"listOk", "listFail", "getOk", "getFail", "deleteOk", "deleteFail",
   "putOk", "putFail", "postOk", "postFail"}

\* The history record of a task: its name, the id it is about, the note the
\* backend answered with, and the sel0 of the request it issued or settled.
\* list is the array a list request resolved with; ok is, for the
\* continuations of handleDelete, the status of the response to the DELETE
\* (TRUE in every other record).  del is the id a DELETE succeeded for, kept
\* while only continuations run and dropped by the next user intent.
Event(e, i, n, r) ==
  [ev |-> e, id |-> i, note |-> n, sel0 |-> r.sel0, list |-> <<>>, ok |-> TRUE,
   del |-> IF e = "deleteOk" THEN i
           ELSE IF e \in SettleEvents THEN last.del ELSE NoId]

\* The record of a continuation of handleDelete that ran on the response resp.
Answered(e, resp) == [e EXCEPT !.ok = resp.ok]

Issue(s, r) == [s EXCEPT !.inflight = @ (+) SetToBag({r})]

Settle(s, r) == [s EXCEPT !.inflight = @ (-) SetToBag({r})]

InFlight(k) == {r \in BagToSet(inflight) : r.kind = k}

\* Number of outstanding requests of kind k.
Outstanding(k) == BagCardinality([r \in InFlight(k) |-> inflight[r]])

\* fetchJSON: a response is a status and a body; the promise resolves with
\* the parsed body only for an ok status whose body parses as JSON, and
\* rejects otherwise (`throw new Error`, or res.json() rejecting).
Responses == [ok : BOOLEAN, json : BOOLEAN]
FetchJSONResolves(resp) == resp.ok /\ resp.json
Rejections == {resp \in Responses : ~FetchJSONResolves(resp)}

\* ---------------------------------------------------------------- effects
\* useEffect(..., [selectedId]), run on the state s a render produced.
FetchDetailEffect(s) ==
  IF s.selectedId = NoId
    THEN [s EXCEPT !.detail = NoNote, !.editMode = FALSE]
    ELSE Issue([s EXCEPT !.loading = TRUE],
               Request("get", s.selectedId, <<>>, <<>>, NoId))

\* The dependency array: the effect runs only if selectedId changed.
Render(s) == IF s.selectedId # selectedId THEN FetchDetailEffect(s) ELSE s

\* One task: the batched updates s, the render and its effect, and the
\* history record e.
Commit(s, e) ==
  LET t == Render(s) IN
    /\ BagCardinality(t.inflight) <= MaxInflight
    /\ notes' = t.notes
    /\ selectedId' = t.selectedId
    /\ detail' = t.detail
    /\ editMode' = t.editMode
    /\ loading' = t.loading
    /\ error' = t.error
    /\ form' = t.form
    /\ inflight' = t.inflight
    /\ last' = e

\* Mount: both effects have run.  The list request is out, and the
\* [selectedId] effect took its `!selectedId` branch.
Init ==
  /\ notes = <<>>
  /\ selectedId = NoId
  /\ detail = NoNote
  /\ editMode = FALSE
  /\ loading = TRUE
  /\ error = ""
  /\ form = BlankForm
  /\ inflight = SetToBag({Request("list", NoId, <<>>, <<>>, NoId)})
  /\ nextId = MaxList + 1
  /\ last = [ev |-> "mount", id |-> NoId, note |-> NoNote, sel0 |-> NoId,
             list |-> <<>>, ok |-> TRUE, del |-> NoId]

\* ------------------------------------------------- what the JSX renders
\* {editMode && <form ...>}
FormShown == editMode
\* {!editMode && selectedId && detail && (...)}
DetailShown == ~editMode /\ selectedId # NoId /\ detail # NoNote
\* disabled={loading}
Enabled == ~loading

\* The mode the form stands for: none without the form; with it, the submit
\* button reads {detail ? "Save" : "Create"} and handleSave branches alike.
Mode ==
  IF ~editMode THEN "Browsing"
  ELSE IF detail = NoNote THEN "Creating" ELSE "Editing"

\* ----------------------------------------------------------- user intents
\* <button onClick={() => handleSelect(n.id)}> of a list entry: never disabled.
handleSelect(i) ==
  /\ i \in IdsOf(notes)
  /\ Commit([Cur EXCEPT !.selectedId = i, !.form = BlankForm, !.error = ""],
            Event("select", i, NoNote, NoRequest))
  /\ UNCHANGED nextId

\* "+ New Note"
handleStartCreate ==
  /\ Enabled
  /\ Commit([Cur EXCEPT !.selectedId = NoId, !.detail = NoNote,
                        !.editMode = TRUE, !.form = BlankForm, !.error = ""],
            Event("startCreate", NoId, NoNote, NoRequest))
  /\ UNCHANGED nextId

\* "Edit"
handleEdit ==
  /\ DetailShown /\ Enabled
  /\ Commit(IF detail # NoNote
              THEN [Cur EXCEPT !.editMode = TRUE,
                               !.form = [title |-> detail.title,
                                         content |-> detail.content]]
              ELSE Cur,
            Event("edit", NoId, NoNote, NoRequest))
  /\ UNCHANGED nextId

\* "Delete", up to the await; confirmed is the answer to window.confirm.
handleDelete(confirmed) ==
  /\ DetailShown /\ Enabled
  /\ IF detail.id = NoId \/ ~confirmed
       THEN Commit(Cur, Event("deleteDeclined", NoId, NoNote, NoRequest))
       ELSE LET r == Request("delete", detail.id, <<>>, <<>>, NoId) IN
              Commit(Issue([Cur EXCEPT !.loading = TRUE], r),
                     Event("delete", detail.id, NoNote, r))
  /\ UNCHANGED nextId

\* onChange of the title input or the content textarea.
handleChange(name, value) ==
  /\ FormShown /\ Enabled
  /\ name \in {"title", "content"}
  /\ Commit([Cur EXCEPT !.form = [@ EXCEPT ![name] = value]],
            Event("change", NoId, NoNote, NoRequest))
  /\ UNCHANGED nextId

\* onSubmit of the form, up to the await.  Both fields are `required`, so
\* the browser raises no submit event while one of them is the empty string.
handleSave ==
  /\ FormShown /\ Enabled
  /\ form.title # <<>> /\ form.content # <<>>
  /\ IF Trim(form.title) = <<>> \/ Trim(form.content) = <<>>
       THEN Commit([Cur EXCEPT !.error = "Title and content cannot be empty."],
                   Event("saveInvalid", NoId, NoNote, NoRequest))
       ELSE IF detail # NoNote /\ editMode
         THEN LET r == Request("put", detail.id, form.title, form.content,
                               selectedId) IN
                Commit(Issue([Cur EXCEPT !.loading = TRUE], r),
                       Event("save", detail.id, NoNote, r))
         ELSE LET r == Request("post", NoId, form.title, form.content,
                               NoId) IN
                /\ detail = NoNote /\ editMode
                /\ nextId + Outstanding("post") <= MaxList + MaxCreate
                /\ Commit(Issue([Cur EXCEPT !.loading = TRUE], r),
                          Event("save", NoId, NoNote, r))
  /\ UNCHANGED nextId

\* "Cancel"
CancelClick ==
  /\ FormShown /\ Enabled
  /\ Commit([Cur EXCEPT !.editMode = FALSE, !.error = "",
                        !.form = IF detail = NoNote THEN BlankForm ELSE @],
            Event("cancel", NoId, NoNote, NoRequest))
  /\ UNCHANGED nextId

\* ------------------------------------------------------ the backend's answers
\* The note the backend may hold under id i.
Stored(i) == {Note(i, t, c) : t \in ServerTitles, c \in ServerContents}

\* GET /notes: the notes 1..n for some n <= MaxList, oldest first (the
\* backend numbers its notes in the order of their creation).
ServerLists ==
  UNION {{q \in [1..n -> UNION {Stored(i) : i \in ListIds}] :
            \A k \in 1..n : q[k].id = k} : n \in 0..MaxList}

\* ------------------------------------------- continuations after the await
\* useEffect(..., []) after `await fetchJSON(.../notes)` resolved with data.
FetchNotesResolved(r, data) ==
  /\ r \in InFlight("list")
  /\ data \in ServerLists
  /\ Commit([Settle(Cur, r) EXCEPT !.notes = Reverse(data), !.error = "",
                                   !.loading = FALSE],
            [Event("listOk", NoId, NoNote, r) EXCEPT !.list = data])
  /\ UNCHANGED nextId

\* ... and after it rejected.
FetchNotesRejected(r, resp) ==
  /\ r \in InFlight("list")
  /\ resp \in Rejections
  /\ Commit([Settle(Cur, r) EXCEPT !.error = "Unable to load notes.",
                                   !.loading = FALSE],
            Event("listFail", NoId, NoNote, r))
  /\ UNCHANGED nextId

\* useEffect(..., [selectedId]) after `await fetchJSON(.../notes/${selectedId})`.
FetchDetailResolved(r, data) ==
  /\ r \in InFlight("get")
  /\ data \in Stored(r.id)
  /\ Commit([Settle(Cur, r) EXCEPT !.detail = data, !.editMode = FALSE,
                                   !.error = "", !.loading = FALSE],
            Event("getOk", r.id, data, r))
  /\ UNCHANGED nextId

FetchDetailRejected(r, resp) ==
  /\ r \in InFlight("get")
  /\ resp \in Rejections
  /\ Commit([Settle(Cur, r) EXCEPT !.error = "Failed to load note.",
                                   !.loading = FALSE],
            Event("getFail", r.id, NoNote, r))
  /\ UNCHANGED nextId

\* handleDelete after the await; `detail.id` is the closure's, i.e. r.id.
DeleteResolved(r) ==
  /\ r \in InFlight("delete")
  /\ Commit([Settle(Cur, r) EXCEPT !.notes = FilterOutId(@, r.id),
                                   !.selectedId = NoId, !.detail = NoNote,
                                   !.editMode = FALSE, !.form = BlankForm,
                                   !.error = "", !.loading = FALSE],
            Event("deleteOk", r.id, NoNote, r))
  /\ UNCHANGED nextId

\* A slip: the catch returns without setLoading(false).
DeleteRejectedKeepsLoading(r, resp) ==
  /\ r \in InFlight("delete")
  /\ resp \in Rejections
  /\ Commit([Settle(Cur, r) EXCEPT !.error = "Failed to delete note."],
            Answered(Event("deleteFail", r.id, NoNote, r), resp))
  /\ UNCHANGED nextId

DeleteRejected(r, resp) ==
  /\ r \in InFlight("delete")
  /\ resp \in Rejections
  /\ Commit([Settle(Cur, r) EXCEPT !.error = "Failed to delete note.",
                                   !.loading = FALSE],
            Answered(Event("deleteFail", r.id, NoNote, r), resp))
  /\ UNCHANGED nextId

\* handleSave, `detail && editMode` branch, after the PUT resolved with note.
\* The backend answers with the note it stored: the id of the URL and the
\* title and content of the body.
UpdateResolved(r) ==
  /\ r \in InFlight("put")
  /\ LET note == Note(r.id, r.title, r.content) IN
       Commit([Settle(Cur, r) EXCEPT !.notes = MapReplace(@, note),
                                     !.detail = note, !.selectedId = note.id,
                                     !.form = BlankForm, !.editMode = FALSE,
                                     !.error = "", !.loading = FALSE],
              Event("putOk", r.id, note, r))
  /\ UNCHANGED nextId

\* handleSave, `!detail && editMode` branch, after the POST resolved with note.
CreateResolved(r) ==
  /\ r \in InFlight("post")
  /\ LET note == Note(nextId, r.title, r.content) IN
       Commit([Settle(Cur, r) EXCEPT !.notes = Prepend(note, @),
                                     !.selectedId = note.id, !.detail = note,
                                     !.form = BlankForm, !.editMode = FALSE,
                                     !.error = "", !.loading = FALSE],
              Event("postOk", note.id, note, r))
  /\ nextId' = nextId + 1

\* A slip: the catch leaves the form as the try branch does.
SaveRejectedLeavesForm(r, resp) ==
  /\ r \in InFlight("put") \cup InFlight("post")
  /\ resp \in Rejections
  /\ Commit([Settle(Cur, r) EXCEPT !.error = "Failed to save note.",
                                   !.editMode = FALSE, !.loading = FALSE],
            Event(IF r.kind = "put" THEN "putFail" ELSE "postFail",
                           r.id, NoNote, r))
  /\ UNCHANGED nextId

\* handleSave's catch, for either branch.
SaveRejected(r, resp) ==
  /\ r \in InFlight("put") \cup InFlight("post")
  /\ resp \in Rejections
  /\ Commit([Settle(Cur, r) EXCEPT !.error = "Failed to save note.",
                                   !.loading = FALSE],
            Event(IF r.kind = "put" THEN "putFail" ELSE "postFail",
                           r.id, NoNote, r))
  /\ UNCHANGED nextId

\* ------------------------------------------------------------ specification
Next ==
  \/ \E i \in AllIds : handleSelect(i)
  \/ handleStartCreate
  \/ handleEdit
  \/ \E confirmed \in BOOLEAN : handleDelete(confirmed)
  \/ \E value \in TitleInputs : handleChange("title", value)
  \/ \E value \in ContentInputs : handleChange("content", value)
  \/ handleSave
  \/ CancelClick
  \/ \E r \in BagToSet(inflight), data \in ServerLists :
       FetchNotesResolved(r, data)
  \/ \E r \in BagToSet(inflight), resp \in Rejections :
       FetchNotesRejected(r, resp)
  \/ \E r \in BagToSet(inflight) : \E data \in Stored(r.id) :
       FetchDetailResolved(r, data)
  \/ \E r \in BagToSet(inflight), resp \in Rejections :
       FetchDetailRejected(r, resp)
  \/ \E r \in BagToSet(inflight) : DeleteResolved(r)
  \/ \E r \in BagToSet(inflight), resp \in Rejections : DeleteRejected(r, resp)
  \/ \E r \in BagToSet(inflight) : UpdateResolved(r)
  \/ \E r \in BagToSet(inflight) : CreateResolved(r)
  \/ \E r \in BagToSet(inflight), resp \in Rejections : SaveRejected(r, resp)

Spec == Init /\ [][Next]_vars

\* Some outstanding request settles and its continuation runs.
SettleSome ==
  \E r \in BagToSet(inflight) :
    \/ \E data \in ServerLists : FetchNotesResolved(r, data)
    \/ \E data \in Stored(r.id) : FetchDetailResolved(r, data)
    \/ DeleteResolved(r)
    \/ UpdateResolved(r)
    \/ CreateResolved(r)
    \/ \E resp \in Rejections :
         \/ FetchNotesRejected(r, resp)
         \/ FetchDetailRejected(r, resp)
         \/ DeleteRejected(r, resp)
         \/ SaveRejected(r, resp)

\* The sessions followed to their end: those whose backend holds at most
\* LiveList notes when the session starts (notes created later come on top).
LiveLists == {q \in ServerLists : Len(q) <= LiveList}

LiveNext ==
  \/ \E i \in AllIds : handleSelect(i)
  \/ handleStartCreate
  \/ handleEdit
  \/ \E confirmed \in BOOLEAN : handleDelete(confirmed)
  \/ \E value \in TitleInputs : handleChange("title", value)
  \/ \E value \in ContentInputs : handleChange("content", value)
  \/ handleSave
  \/ CancelClick
  \/ \E r \in BagToSet(inflight), data \in LiveLists :
       FetchNotesResolved(r, data)
  \/ \E r \in BagToSet(inflight), resp \in Rejections :
       FetchNotesRejected(r, resp)
  \/ \E r \in BagToSet(inflight) : \E data \in Stored(r.id) :
       FetchDetailResolved(r, data)
  \/ \E r \in BagToSet(inflight), resp \in Rejections :
       FetchDetailRejected(r, resp)
  \/ \E r \in BagToSet(inflight) : DeleteResolved(r)
  \/ \E r \in BagToSet(inflight), resp \in Rejections : DeleteRejected(r, resp)
  \/ \E r \in BagToSet(inflight) : UpdateResolved(r)
  \/ \E r \in BagToSet(inflight) : CreateResolved(r)
  \/ \E r \in BagToSet(inflight), resp \in Rejections : SaveRejected(r, resp)

\* Every request the backend has received is answered in the end, and the
\* event loop then runs the continuation that awaits it.
FairSpec == Init /\ [][LiveNext]_vars /\ WF_vars(SettleSome)

TypeOK ==
  /\ selectedId \in {NoId} \cup AllIds
  /\ editMode \in BOOLEAN
  /\ loading \in BOOLEAN
  /\ BagCardinality(inflight) <= MaxInflight

\* ------------------------------------------------------------------ claims
Mutations == Outstanding("put") + Outstanding("post") + Outstanding("delete")

\* C1: "+ New Note", clicked while no request is in flight, leaves the
\* session in Creating with no selection, no detail, a blank form and no
\* error, also when a note was selected.
C1_StartCreateEntersCreating ==
  (last.ev = "startCreate" /\ inflight = EmptyBag) =>
    /\ Mode = "Creating"
    /\ selectedId = NoId
    /\ detail = NoNote
    /\ form = BlankForm
    /\ error = ""

\* C2: in every reachable state detail is present only if a note is selected
\* and detail is the note of the selected id.
C2_DetailIsOfSelection ==
  detail # NoNote => (selectedId # NoId /\ detail.id = selectedId)

\* C3: once every request has settled and the response that settled last is
\* a loaded note, detail is the note of the id selected last; a response for
\* an id selected earlier is dropped.
C3_LastSelectedWins ==
  (last.ev = "getOk" /\ inflight = EmptyBag /\ selectedId # NoId) =>
    detail.id = selectedId

\* C4: loading is true exactly while at least one request is in flight.
C4_LoadingIffInFlight == loading <=> (inflight # EmptyBag)

\* C5: at most one create, update or delete request is outstanding at any
\* time; a Submit or Delete while one is outstanding issues no second one.
C5_OneMutationOutstanding == Mutations <= 1

\* C6: in Creating nothing is selected and no detail is held.
C6_CreatingHasNoSelection ==
  Mode = "Creating" => (selectedId = NoId /\ detail = NoNote)

\* C7: notes never holds two entries with the same id (the backend's list has
\* distinct ids and every created note gets an id not used before).
C7_NotesIdsDistinct ==
  \A j, k \in 1..Len(notes) : j # k => notes[j].id # notes[k].id

\* C7 witness: an update was reconciled into a list that holds the backend's
\* notes and a created one.
C7_Witness ==
  /\ last.ev = "putOk"
  /\ Len(notes) > MaxList
  /\ \E k \in 1..Len(notes) : notes[k] = last.note

\* C8: when the fetch for the selected id has failed and nothing is in
\* flight, detail is absent, the error is "Failed to load note." and the id
\* is still selected, whatever was shown before.
C8_FailedSelectHasNoDetail ==
  (last.ev = "getFail" /\ last.id = selectedId /\ inflight = EmptyBag) =>
    /\ detail = NoNote
    /\ error = "Failed to load note."
    /\ selectedId = last.id

\* C9: a successful update replaces the entry of the returned note's id in
\* place, leaves the other entries, the length and the order of notes alone,
\* makes detail the returned note, leaves selectedId as it was at the Submit,
\* clears the form and the error and ends in Browsing.
C9_UpdateReconciles ==
  [][last'.ev = "putOk" =>
       /\ Len(notes') = Len(notes)
       /\ \A k \in 1..Len(notes) :
            notes'[k] = IF notes[k].id = last'.note.id THEN last'.note
                        ELSE notes[k]
       /\ detail' = last'.note
       /\ selectedId' = last'.sel0
       /\ form' = BlankForm
       /\ ~editMode'
       /\ error' = ""]_vars

\* C10: a successful create puts the returned note in front of the previous
\* notes, selects it, makes it the detail, clears the form and the error and
\* ends in Browsing.
C10_CreatePrepends ==
  [][last'.ev = "postOk" =>
       /\ notes' = <<last'.note>> \o notes
       /\ selectedId' = last'.note.id
       /\ detail' = last'.note
       /\ ~editMode'
       /\ form' = BlankForm
       /\ error' = ""]_vars

\* C10 witness: a note was created in front of a list that was not empty.
C10_Witness ==
  /\ last.ev = "postOk"
  /\ Len(notes) >= 2
  /\ notes[1] = last.note
  /\ selectedId = last.note.id


\* C11: once a DELETE has succeeded and every request has settled (no user
\* intent since), the deleted id is gone from notes, nothing is selected, no
\* detail is held, the form is blank and hidden and no error is shown, also
\* when another note was selected while the DELETE was in flight.
C11_DeleteClearsSelection ==
  (last.del # NoId /\ inflight = EmptyBag) =>
    /\ last.del \notin IdsOf(notes)
    /\ selectedId = NoId
    /\ detail = NoNote
    /\ ~editMode
    /\ form = BlankForm
    /\ error = ""

\* C12: the catch of a create, update or delete sets the fixed message and
\* leaves notes, selectedId, detail, the mode and the form as they were
\* before the request settled.
C12_FailureKeepsState ==
  [][last'.ev \in {"putFail", "postFail", "deleteFail"} =>
       /\ error' = IF last'.ev = "deleteFail" THEN "Failed to delete note."
                   ELSE "Failed to save note."
       /\ notes' = notes
       /\ selectedId' = selectedId
       /\ detail' = detail
       /\ editMode' = editMode
       /\ form' = form]_vars

\* C12 witness: an update failed and the form is still up with its content.
C12_Witness ==
  /\ last.ev = "putFail"
  /\ Mode = "Editing"
  /\ form # BlankForm
  /\ error = "Failed to save note."

\* A text that is empty once the white space around it is removed.
Blank(t) == \A k \in 1..Len(t) : t[k] = " "

\* C13: a Submit with a title or a content that is blank issues no request,
\* sets the error "Title and content cannot be empty.", does not set loading
\* and leaves notes, selectedId, detail, the mode and the form as they were.
C13_BlankSubmitRejected ==
  [][(last'.ev \in {"save", "saveInvalid"}
        /\ (Blank(form.title) \/ Blank(form.content))) =>
       /\ inflight' = inflight
       /\ error' = "Title and content cannot be empty."
       /\ loading' = loading
       /\ notes' = notes
       /\ selectedId' = selectedId
       /\ detail' = detail
       /\ editMode' = editMode
       /\ form' = form]_vars

\* C13 witness: a form whose title is white space was submitted.
C13_Witness ==
  /\ last.ev = "saveInvalid"
  /\ form.title = <<" ">>
  /\ form.content = <<"c">>
  /\ error = "Title and content cannot be empty."
  /\ ~loading
  /\ inflight = EmptyBag

\* C14: right after the list request resolved with L, notes is L in reverse
\* order, no error is shown, the mode is Browsing and nothing is selected.
C14_ListStoredReversed ==
  last.ev = "listOk" =>
    /\ Len(notes) = Len(last.list)
    /\ \A k \in 1..Len(notes) : notes[k] = last.list[Len(last.list) + 1 - k]
    /\ error = ""
    /\ Mode = "Browsing"
    /\ selectedId = NoId

\* C14 witness: a list of at least two notes was stored, newest first.
C14_Witness ==
  /\ last.ev = "listOk"
  /\ Len(notes) >= 2
  /\ notes[1].id = last.list[Len(last.list)].id
  /\ notes[1].id # notes[2].id


\* The request the [selectedId] effect issues for the id i.
GetRequest(i) == Request("get", i, <<>>, <<>>, NoId)

\* C15: every click on a list entry issues a GET for its id, also when the
\* id is the one already selected.
C15_SelectAlwaysFetches ==
  [][last'.ev = "select" =>
       CopiesIn(GetRequest(last'.id), inflight')
         = CopiesIn(GetRequest(last'.id), inflight) + 1]_vars

\* C16: after a user intent has run, and after its request has settled, the
\* error is empty or the message of that intent: none for Select, Start
\* create, Start edit, Cancel and every success, the fixed message for a
\* rejected Submit and for each failure.
C16_ErrorIsOfLastIntent ==
  /\ last.ev \in {"select", "startCreate", "edit", "cancel",
                  "getOk", "putOk", "postOk", "deleteOk"} => error = ""
  /\ last.ev = "saveInvalid" => error = "Title and content cannot be empty."
  /\ last.ev = "getFail" => error = "Failed to load note."
  /\ last.ev \in {"putFail", "postFail"} => error = "Failed to save note."
  /\ last.ev = "deleteFail" => error = "Failed to delete note."

\* C17: Cancel in Creating ends in Browsing with nothing selected, no detail
\* and a blank form, whatever the form held.
C17_CancelFromCreating ==
  [][(last'.ev = "cancel" /\ Mode = "Creating") =>
       /\ ~editMode'
       /\ selectedId' = NoId
       /\ detail' = NoNote
       /\ form' = BlankForm]_vars

\* C19: a PUT or a DELETE is issued for the id that is selected.
C19_MutationTargetsSelection ==
  (last.ev = "delete" \/ (last.ev = "save" /\ last.id # NoId)) =>
    last.id = selectedId

\* C20: when the response to a DELETE has a success status, whatever its
\* body, the note is removed from notes, selectedId and detail are cleared
\* and the error is not "Failed to delete note.".
C20_DeleteIgnoresBody ==
  (last.ev \in {"deleteOk", "deleteFail"} /\ last.ok) =>
    /\ last.id \notin IdsOf(notes)
    /\ selectedId = NoId
    /\ detail = NoNote
    /\ error # "Failed to delete note."


\* C18: when every request is answered in the end, loading never stays true
\* for ever; and when a create, update or delete has settled, with either
\* outcome, and nothing else is in flight, loading is false.
C18_LoadingEnds ==
  /\ loading ~> ~loading
  /\ []((last.ev \in {"putOk", "putFail", "postOk", "postFail",
                      "deleteOk", "deleteFail"} /\ inflight = EmptyBag)
          => ~loading)

\* C18 witness: a delete has failed, nothing is in flight and the controls
\* are enabled again.
C18_Witness ==
  /\ last.ev = "deleteFail"
  /\ inflight = EmptyBag
  /\ ~loading
  /\ error = "Failed to delete note."

\* C21: the step that reconciles the response of a successful create issues
\* no request: the POST leaves the requests in flight, no GET for the created
\* id (nor any other request) joins them, and loading is false after it.
C21_CreateIssuesNoFetch ==
  [][last'.ev = "postOk" =>
       /\ CopiesIn(GetRequest(last'.id), inflight')
            = CopiesIn(GetRequest(last'.id), inflight)
       /\ BagCardinality(inflight') = BagCardinality(inflight) - 1
       /\ ~loading']_vars

====
